---- MODULE Spec2Model ----
(***************************************************************************)
(* Model of scripts/setup-claude-review.py: a linear pipeline of           *)
(* shell-outs (git, gh, yamllint) gated by three operator prompts.         *)
(*                                                                         *)
(* Every function of the script is an operator that returns the effects of *)
(* one call (return value, raised exception, printed lines, commands run,  *)
(* prompts shown); every action is one statement of main() applied to the  *)
(* current state, including main()'s own exception handlers.               *)
(***************************************************************************)
EXTENDS Integers, Sequences, FiniteSets, TLC

VARIABLES
    pc,                 \* the statement of main() that runs next
    exitCode,           \* process exit status, Running while the process lives
    log,                \* lines printed so far
    cmds,               \* commands handed to subprocess.run so far, with outcome
    prompts,            \* input() calls so far, with what the operator did
    legacy_removed,     \* main()'s local of that name
    gitInstalled,       \* the git executable is on PATH
    ghInstalled,        \* the gh executable is on PATH
    yamllintInstalled,  \* the yamllint executable is on PATH
    visibility,         \* visibility of totetech/.github on the provider
    legacyExists,       \* .github/workflows/claude.yml exists
    workflowFile,       \* content of .github/workflows/claude-review.yml
    fileOps,            \* file-system calls made so far
    commits,            \* messages of the commits created by this run
    pushed              \* git push completed

vars == <<pc, exitCode, log, cmds, prompts, legacy_removed, gitInstalled,
          ghInstalled, yamllintInstalled, visibility, legacyExists,
          workflowFile, fileOps, commits, pushed>>

----------------------------------------------------------------------------
(* Bounds of the model *)

\* longest line the operator types at a prompt
MaxAnswerLen == 2

\* characters the operator types
AnswerChars == {"y", "Y", "n"}

\* exit statuses an external command returns: check=True only tells zero
\* from nonzero
ReturnCodes == {0, 1}

Running == -1

----------------------------------------------------------------------------
(* Strings are sequences of one-character strings *)

RECURSIVE SeqsUpTo(_, _)
SeqsUpTo(S, n) ==
    IF n = 0 THEN {<<>>}
    ELSE LET shorter == SeqsUpTo(S, n - 1)
         IN shorter \cup {Append(s, c) : s \in {t \in shorter : Len(t) = n - 1}, c \in S}

Answers == SeqsUpTo(AnswerChars, MaxAnswerLen)

\* str.lower() on one character
LowerChar(c) ==
    CASE c = "Y" -> "y"
      [] c = "N" -> "n"
      [] c = "P" -> "p"
      [] OTHER -> c

\* str.lower()
lower(s) == [i \in 1..Len(s) |-> LowerChar(s[i])]

IsSpace(c) == c \in {" ", "\n", "\t"}

RECURSIVE lstrip(_)
lstrip(s) == IF s # <<>> /\ IsSpace(Head(s)) THEN lstrip(Tail(s)) ELSE s

RECURSIVE rstrip(_)
rstrip(s) ==
    IF s # <<>> /\ IsSpace(s[Len(s)]) THEN rstrip(SubSeq(s, 1, Len(s) - 1)) ELSE s

strip_identity(s) == s

\* str.strip()
strip(s) == lstrip(rstrip(s))

\* what `gh api repos/totetech/.github --jq .visibility` prints
VisibilityStdout(v) ==
    CASE v = "public"   -> <<"p", "u", "b", "l", "i", "c", "\n">>
      [] v = "private"  -> <<"p", "r", "i", "v", "a", "t", "e", "\n">>
      [] v = "internal" -> <<"i", "n", "t", "e", "r", "n", "a", "l", "\n">>

PublicLiteral == <<"p", "u", "b", "l", "i", "c">>

\* what `gh secret list` prints, as the names of the secrets listed
SecretLists == {<<>>, <<"ANTHROPIC_API_KEY">>, <<"OTHER_SECRET">>}

----------------------------------------------------------------------------
(* input(): a line, or an exception raised while waiting *)

Inputs ==
    [kind : {"line"}, text : Answers]
      \cup {[kind |-> "KeyboardInterrupt", text |-> <<>>],
            [kind |-> "EOFError", text |-> <<>>]}

Prompt(p, inp) == [prompt |-> p, response |-> inp]

PromptPublic == "Make .github repository public? (y/N): "
PromptLegacy == "Delete legacy claude.yml workflow? (y/N): "
PromptPush   == "Push to repository? (y/N): "

consents_unless_n(response) == lower(response) # <<"n">>

\* `response.lower() == 'y'`
consents(response) == lower(response) = <<"y">>

----------------------------------------------------------------------------
(* run_command: subprocess.run(cmd, check=True) *)

CmdGitDir   == "git rev-parse --git-dir"
CmdGhVer    == "gh --version"
CmdRepoView == "gh repo view totetech/<repo_name>"
CmdVisQuery == "gh api repos/totetech/.github --jq .visibility"
CmdVisEdit  == "gh repo edit totetech/.github --visibility public --accept-visibility-change-consequences"
CmdSecrets  == "gh secret list --repo totetech/<repo_name>"
CmdYamllint == "yamllint .github/workflows/claude-review.yml"
CmdAdd      == "git add .github/workflows/"
CmdDiff     == "git diff --cached --quiet"
CmdCommit   == "git commit -m <commit_message>"
CmdPush     == "git push"

CommandFailed(cmd) == "Command failed: " \o cmd

run_command_unchecked(cmd, installed, rc) ==
    IF ~installed
    THEN [exc |-> "FileNotFoundError", out |-> <<>>,
          cmds |-> <<[cmd |-> cmd, result |-> "notfound"]>>]
    ELSE [exc |-> "none", out |-> <<>>,
          cmds |-> <<[cmd |-> cmd, result |-> IF rc # 0 THEN "nonzero" ELSE "ok"]>>]

run_command_silent(cmd, installed, rc) ==
    IF ~installed
    THEN [exc |-> "FileNotFoundError", out |-> <<>>,
          cmds |-> <<[cmd |-> cmd, result |-> "notfound"]>>]
    ELSE IF rc # 0
    THEN [exc |-> "CalledProcessError", out |-> <<>>,
          cmds |-> <<[cmd |-> cmd, result |-> "nonzero"]>>]
    ELSE [exc |-> "none", out |-> <<>>,
          cmds |-> <<[cmd |-> cmd, result |-> "ok"]>>]

\* exc: the exception that leaves run_command; out: what it printed
run_command(cmd, installed, rc) ==
    IF ~installed
    THEN [exc |-> "FileNotFoundError", out |-> <<>>,
          cmds |-> <<[cmd |-> cmd, result |-> "notfound"]>>]
    ELSE IF rc # 0
    THEN [exc |-> "CalledProcessError",
          out |-> <<CommandFailed(cmd), "Error: <stderr>">>,
          cmds |-> <<[cmd |-> cmd, result |-> "nonzero"]>>]
    ELSE [exc |-> "none", out |-> <<>>,
          cmds |-> <<[cmd |-> cmd, result |-> "ok"]>>]

----------------------------------------------------------------------------
(* check_prerequisites *)

MsgNotGit     == "Not in a git repository"
MsgNotGitHint == "Please run this script from the root of your repository"
MsgNoGh       == "GitHub CLI not found"
MsgNoGhHint   == "Please install GitHub CLI: https://cli.github.com/"

\* `except subprocess.CalledProcessError` of the git check
GitCheckCatches(exc) == exc = "CalledProcessError"

\* `except (subprocess.CalledProcessError, FileNotFoundError)` of the gh check
GhCheckCatches(exc) == exc \in {"CalledProcessError", "FileNotFoundError"}

check_prerequisites(gitRc, ghRc) ==
    LET out0 == <<"Checking prerequisites...">>
        g == run_command(CmdGitDir, gitInstalled, gitRc)
        h == run_command(CmdGhVer, ghInstalled, ghRc)
    IN  IF g.exc # "none"
        THEN IF GitCheckCatches(g.exc)
             THEN [ret |-> FALSE, exc |-> "none", cmds |-> g.cmds,
                   out |-> out0 \o g.out \o <<MsgNotGit, MsgNotGitHint>>]
             ELSE [ret |-> FALSE, exc |-> g.exc, cmds |-> g.cmds,
                   out |-> out0 \o g.out]
        ELSE LET out1 == out0 \o <<"Git repository detected">>
             IN  IF h.exc # "none"
                 THEN IF GhCheckCatches(h.exc)
                      THEN [ret |-> FALSE, exc |-> "none", cmds |-> g.cmds \o h.cmds,
                            out |-> out1 \o h.out \o <<MsgNoGh, MsgNoGhHint>>]
                      ELSE [ret |-> FALSE, exc |-> h.exc, cmds |-> g.cmds \o h.cmds,
                            out |-> out1 \o h.out]
                 ELSE [ret |-> TRUE, exc |-> "none", cmds |-> g.cmds \o h.cmds,
                       out |-> out1 \o <<"GitHub CLI available">>]

----------------------------------------------------------------------------
(* verify_repository_access *)

MsgNoAccess == "Cannot access repository totetech/<repo_name>"
MsgAuthHint == "- GitHub CLI is authenticated (run 'gh auth login')"

verify_repository_access(rc) ==
    LET out0 == <<"Verifying access to totetech/<repo_name>...">>
        v == run_command(CmdRepoView, ghInstalled, rc)
    IN  IF v.exc = "none"
        THEN [ret |-> TRUE, exc |-> "none", cmds |-> v.cmds,
              out |-> out0 \o <<"Repository access verified">>]
        ELSE IF v.exc = "CalledProcessError"
        THEN [ret |-> FALSE, exc |-> "none", cmds |-> v.cmds,
              out |-> out0 \o v.out \o
                      <<MsgNoAccess, "Please ensure:", "- Repository exists",
                        "- You have access to the repository", MsgAuthHint>>]
        ELSE [ret |-> FALSE, exc |-> v.exc, cmds |-> v.cmds, out |-> out0 \o v.out]

----------------------------------------------------------------------------
(* ensure_github_repo_public *)

MsgNeedsPublic  == ".github repository is <visibility>, needs to be public"
MsgMaking       == "Making .github repository public..."
MsgNowPublic    == ".github repository is now public"
MsgMustBePublic == ".github repository must be public for reusable workflows"
MsgIsPublic     == ".github repository is public"
MsgVisFailed    == "Failed to check .github repository visibility"

IsPublic_always(v) == TRUE

\* the negation of `visibility != 'public'`
IsPublic(v) == v = PublicLiteral

ensure_github_repo_public(rc, inp, editRc) ==
    LET out0 == <<"Checking .github repository visibility...">>
        q == run_command(CmdVisQuery, ghInstalled, rc)
        v == strip(VisibilityStdout(visibility))
        e == run_command(CmdVisEdit, ghInstalled, editRc)
        asked == <<Prompt(PromptPublic, inp)>>
    IN  IF q.exc = "CalledProcessError"
        THEN [ret |-> FALSE, exc |-> "none", cmds |-> q.cmds, prompts |-> <<>>,
              visibility |-> visibility,
              out |-> out0 \o q.out \o <<MsgVisFailed>>]
        ELSE IF q.exc # "none"
        THEN [ret |-> FALSE, exc |-> q.exc, cmds |-> q.cmds, prompts |-> <<>>,
              visibility |-> visibility, out |-> out0 \o q.out]
        ELSE IF IsPublic(v)
        THEN [ret |-> TRUE, exc |-> "none", cmds |-> q.cmds, prompts |-> <<>>,
              visibility |-> visibility, out |-> out0 \o <<MsgIsPublic>>]
        ELSE LET out1 == out0 \o <<MsgNeedsPublic>>
             IN  IF inp.kind # "line"
                 THEN [ret |-> FALSE, exc |-> inp.kind, cmds |-> q.cmds,
                       prompts |-> asked, visibility |-> visibility, out |-> out1]
                 ELSE IF ~consents(inp.text)
                 THEN [ret |-> FALSE, exc |-> "none", cmds |-> q.cmds,
                       prompts |-> asked, visibility |-> visibility,
                       out |-> out1 \o <<MsgMustBePublic>>]
                 ELSE IF e.exc = "CalledProcessError"
                 THEN [ret |-> FALSE, exc |-> "none", cmds |-> q.cmds \o e.cmds,
                       prompts |-> asked, visibility |-> visibility,
                       out |-> out1 \o <<MsgMaking>> \o e.out \o <<MsgVisFailed>>]
                 ELSE IF e.exc # "none"
                 THEN [ret |-> FALSE, exc |-> e.exc, cmds |-> q.cmds \o e.cmds,
                       prompts |-> asked, visibility |-> visibility,
                       out |-> out1 \o <<MsgMaking>> \o e.out]
                 ELSE [ret |-> TRUE, exc |-> "none", cmds |-> q.cmds \o e.cmds,
                       prompts |-> asked, visibility |-> "public",
                       out |-> out1 \o <<MsgMaking, MsgNowPublic>>]

----------------------------------------------------------------------------
(* check_anthropic_secret *)

MsgSecretFound   == "ANTHROPIC_API_KEY secret found at repository level"
MsgSecretMissing == "ANTHROPIC_API_KEY not found at repository level"
MsgSecretAssume  == "Assuming organization-level secret exists..."
MsgSecretUnknown == "Could not check secrets, assuming organization-level secret exists"

SecretCheckCatches_nothing(exc) == FALSE

\* `except subprocess.CalledProcessError`
SecretCheckCatches(exc) == exc = "CalledProcessError"

check_anthropic_secret(rc, listed) ==
    LET out0 == <<"Checking for ANTHROPIC_API_KEY secret...">>
        s == run_command(CmdSecrets, ghInstalled, rc)
    IN  IF s.exc = "none"
        THEN [exc |-> "none", cmds |-> s.cmds,
              out |-> out0 \o
                      (IF \E i \in 1..Len(listed) : listed[i] = "ANTHROPIC_API_KEY"
                       THEN <<MsgSecretFound>>
                       ELSE <<MsgSecretMissing, MsgSecretAssume>>)]
        ELSE IF SecretCheckCatches(s.exc)
        THEN [exc |-> "none", cmds |-> s.cmds,
              out |-> out0 \o s.out \o <<MsgSecretUnknown>>]
        ELSE [exc |-> s.exc, cmds |-> s.cmds, out |-> out0 \o s.out]

----------------------------------------------------------------------------
(* handle_legacy_workflow *)

OpUnlinkLegacy == "unlink .github/workflows/claude.yml"
OpMkdir        == "mkdir -p .github/workflows"
OpWrite        == "write .github/workflows/claude-review.yml"

MsgLegacyFound   == "Found legacy claude.yml workflow"
MsgLegacyReplace == "This should be replaced with the new claude-review.yml"
MsgLegacyRemoved == "Legacy workflow removed"
MsgLegacyKept    == "Legacy workflow kept - you may have duplicate workflows"

\* unlinkOk: legacy_file.unlink() does not raise OSError
handle_legacy_workflow(inp, unlinkOk) ==
    LET out1 == <<MsgLegacyFound, MsgLegacyReplace>>
        asked == <<Prompt(PromptLegacy, inp)>>
    IN  IF ~legacyExists
        THEN [ret |-> FALSE, exc |-> "none", prompts |-> <<>>, fileOps |-> <<>>,
              legacyExists |-> legacyExists, out |-> <<>>]
        ELSE IF inp.kind # "line"
        THEN [ret |-> FALSE, exc |-> inp.kind, prompts |-> asked, fileOps |-> <<>>,
              legacyExists |-> legacyExists, out |-> out1]
        ELSE IF ~consents(inp.text)
        THEN [ret |-> FALSE, exc |-> "none", prompts |-> asked, fileOps |-> <<>>,
              legacyExists |-> legacyExists,
              out |-> out1 \o <<MsgLegacyKept,
                                "Consider manually removing claude.yml after testing">>]
        ELSE IF ~unlinkOk
        THEN [ret |-> FALSE, exc |-> "OSError", prompts |-> asked,
              fileOps |-> <<OpUnlinkLegacy>>, legacyExists |-> legacyExists,
              out |-> out1 \o <<"Removing legacy workflow...">>]
        ELSE [ret |-> TRUE, exc |-> "none", prompts |-> asked,
              fileOps |-> <<OpUnlinkLegacy>>, legacyExists |-> FALSE,
              out |-> out1 \o <<"Removing legacy workflow...", MsgLegacyRemoved>>]

----------------------------------------------------------------------------
(* create_workflow_file *)

MsgOverwrite == "claude-review.yml already exists - will overwrite"
MsgCreated   == "Workflow file created"

\* mkdirOk, writeOk: mkdir() and write_text() do not raise OSError
create_workflow_file(mkdirOk, writeOk) ==
    LET out0 == <<"Creating .github/workflows directory...">>
        out1 == out0 \o (IF workflowFile # "absent" THEN <<MsgOverwrite>> ELSE <<>>)
                     \o <<"Creating Claude review workflow file...">>
    IN  IF ~mkdirOk
        THEN [exc |-> "OSError", fileOps |-> <<OpMkdir>>,
              workflowFile |-> workflowFile, out |-> out0]
        ELSE IF ~writeOk
        THEN [exc |-> "OSError", fileOps |-> <<OpMkdir, OpWrite>>,
              workflowFile |-> workflowFile, out |-> out1]
        ELSE [exc |-> "none", fileOps |-> <<OpMkdir, OpWrite>>,
              workflowFile |-> "template", out |-> out1 \o <<MsgCreated>>]

----------------------------------------------------------------------------
(* validate_yaml *)

MsgYamlValid == "YAML syntax is valid"
MsgYamlSkip  == "yamllint not available, skipping validation"

validate_yaml(rc) ==
    LET out0 == <<"Validating YAML syntax...">>
        y == run_command(CmdYamllint, yamllintInstalled, rc)
    IN  IF y.exc = "none"
        THEN [exc |-> "none", cmds |-> y.cmds, out |-> out0 \o <<MsgYamlValid>>]
        ELSE IF y.exc \in {"CalledProcessError", "FileNotFoundError"}
        THEN [exc |-> "none", cmds |-> y.cmds, out |-> out0 \o y.out \o <<MsgYamlSkip>>]
        ELSE [exc |-> y.exc, cmds |-> y.cmds, out |-> out0 \o y.out]

----------------------------------------------------------------------------
(* commit_and_push_changes *)

RemovalLine == "- Removes legacy claude.yml workflow"

BaseMessage ==
    <<"Add Claude code review workflow",
      "",
      "- Implements automated AI-powered code reviews",
      "- Configures size limits: 50 files, 2000 lines",
      "- Includes proper permissions and secrets configuration",
      "- Automatically triggers on PR events">>

commit_message_always(removed) == Append(BaseMessage, RemovalLine)

commit_message_never(removed) == BaseMessage

\* the message built before `git commit`
commit_message(removed) ==
    IF removed THEN Append(BaseMessage, RemovalLine) ELSE BaseMessage

MsgNoChanges == "No changes to commit"
MsgCommitted == "Changes committed"
MsgPushed    == "Changes pushed"
MsgLocal     == "Changes committed locally. Push when ready: git push"

HasStagedChanges_always(d) == d.exc # "FileNotFoundError"

\* `git diff --cached --quiet` raised CalledProcessError: there are changes
HasStagedChanges(d) == d.exc = "CalledProcessError"

commit_and_push_changes(removed, addRc, diffRc, commitRc, inp, pushRc) ==
    LET out0 == <<"Preparing commit...">>
        a == run_command(CmdAdd, gitInstalled, addRc)
        d == run_command(CmdDiff, gitInstalled, diffRc)
        c == run_command(CmdCommit, gitInstalled, commitRc)
        p == run_command(CmdPush, gitInstalled, pushRc)
        asked == <<Prompt(PromptPush, inp)>>
        made == <<commit_message(removed)>>
    IN  IF a.exc # "none"
        THEN [exc |-> a.exc, cmds |-> a.cmds, prompts |-> <<>>, commits |-> <<>>,
              pushed |-> FALSE, out |-> out0 \o a.out]
        ELSE IF ~HasStagedChanges(d)
        THEN IF d.exc = "none"
             THEN [exc |-> "none", cmds |-> a.cmds \o d.cmds, prompts |-> <<>>,
                   commits |-> <<>>, pushed |-> FALSE,
                   out |-> out0 \o <<MsgNoChanges>>]
             ELSE [exc |-> d.exc, cmds |-> a.cmds \o d.cmds, prompts |-> <<>>,
                   commits |-> <<>>, pushed |-> FALSE, out |-> out0 \o d.out]
        ELSE LET out1 == out0 \o d.out
                 cmds1 == a.cmds \o d.cmds \o c.cmds
             IN  IF c.exc # "none"
                 THEN [exc |-> c.exc, cmds |-> cmds1, prompts |-> <<>>,
                       commits |-> <<>>, pushed |-> FALSE, out |-> out1 \o c.out]
                 ELSE LET out2 == out1 \o <<MsgCommitted, "">>
                      IN  IF inp.kind # "line"
                          THEN [exc |-> inp.kind, cmds |-> cmds1, prompts |-> asked,
                                commits |-> made, pushed |-> FALSE, out |-> out2]
                          ELSE IF ~consents(inp.text)
                          THEN [exc |-> "none", cmds |-> cmds1, prompts |-> asked,
                                commits |-> made, pushed |-> FALSE,
                                out |-> out2 \o <<MsgLocal>>]
                          ELSE IF p.exc # "none"
                          THEN [exc |-> p.exc, cmds |-> cmds1 \o p.cmds,
                                prompts |-> asked, commits |-> made, pushed |-> FALSE,
                                out |-> out2 \o <<"Pushing to repository...">> \o p.out]
                          ELSE [exc |-> "none", cmds |-> cmds1 \o p.cmds,
                                prompts |-> asked, commits |-> made, pushed |-> TRUE,
                                out |-> out2 \o <<"Pushing to repository...", MsgPushed>>]

----------------------------------------------------------------------------
(* print_completion_message *)

MsgComplete      == "Claude Code Review Workflow Setup Complete!"
MsgLegacySection == "- claude.yml removed (available in git history)"
MsgHappy         == "Happy coding with AI-powered reviews!"

print_completion_message(removed) ==
    <<"", MsgComplete, "", "Next Steps:",
      "1. Push changes if not already done: git push",
      "Documentation:", "Current Configuration:",
      "- Max files: 50", "- Max lines: 2000", "- Skip large PRs: true",
      "- Triggers: opened, synchronize, ready_for_review, edited">>
      \o (IF removed THEN <<"Legacy Workflow:", MsgLegacySection>> ELSE <<>>)
      \o <<MsgHappy>>

----------------------------------------------------------------------------
(* main(): the exception handlers around the pipeline *)

MsgCancelled  == "Setup cancelled by user"
MsgUnexpected == "Unexpected error: <e>"

\* `except KeyboardInterrupt` / `except Exception`
MainHandlerMsg(exc) ==
    IF exc = "KeyboardInterrupt" THEN MsgCancelled ELSE MsgUnexpected

\* an exception reaches main()'s handlers: report it and sys.exit(1)
Abort(exc, out) ==
    /\ pc' = "exited"
    /\ exitCode' = 1
    /\ log' = log \o out \o <<MainHandlerMsg(exc)>>

\* `sys.exit(1)` after a stage returned False
Exit1(out) ==
    /\ pc' = "exited"
    /\ exitCode' = 1
    /\ log' = log \o out

Continue(next, out) ==
    /\ pc' = next
    /\ exitCode' = exitCode
    /\ log' = log \o out

----------------------------------------------------------------------------
Init ==
    /\ pc = "check_prerequisites"
    /\ exitCode = Running
    /\ log = <<>>
    /\ cmds = <<>>
    /\ prompts = <<>>
    /\ legacy_removed = FALSE
    /\ gitInstalled \in BOOLEAN
    /\ ghInstalled \in BOOLEAN
    /\ yamllintInstalled \in BOOLEAN
    /\ visibility \in {"public", "private", "internal"}
    /\ legacyExists \in BOOLEAN
    /\ workflowFile \in {"absent", "other", "template"}
    /\ fileOps = <<>>
    /\ commits = <<>>
    /\ pushed = FALSE

\* `if not check_prerequisites(): sys.exit(1)`
CheckPrerequisites ==
    /\ pc = "check_prerequisites"
    /\ \E gitRc \in ReturnCodes, ghRc \in ReturnCodes :
         LET r == check_prerequisites(gitRc, ghRc)
         IN  /\ cmds' = cmds \o r.cmds
             /\ IF r.exc # "none" THEN Abort(r.exc, r.out)
                ELSE IF ~r.ret THEN Exit1(r.out)
                ELSE Continue("verify_repository_access", r.out)
    /\ UNCHANGED <<prompts, legacy_removed, gitInstalled, ghInstalled,
                   yamllintInstalled, visibility, legacyExists, workflowFile,
                   fileOps, commits, pushed>>

\* `if not verify_repository_access(args.repo_name): sys.exit(1)`
VerifyRepositoryAccess ==
    /\ pc = "verify_repository_access"
    /\ \E rc \in ReturnCodes :
         LET r == verify_repository_access(rc)
         IN  /\ cmds' = cmds \o r.cmds
             /\ IF r.exc # "none" THEN Abort(r.exc, r.out)
                ELSE IF ~r.ret THEN Exit1(r.out)
                ELSE Continue("ensure_github_repo_public", r.out)
    /\ UNCHANGED <<prompts, legacy_removed, gitInstalled, ghInstalled,
                   yamllintInstalled, visibility, legacyExists, workflowFile,
                   fileOps, commits, pushed>>

\* `if not ensure_github_repo_public(): sys.exit(1)`
EnsureGithubRepoPublic ==
    /\ pc = "ensure_github_repo_public"
    /\ \E rc \in ReturnCodes, inp \in Inputs, editRc \in ReturnCodes :
         LET r == ensure_github_repo_public(rc, inp, editRc)
         IN  /\ cmds' = cmds \o r.cmds
             /\ prompts' = prompts \o r.prompts
             /\ visibility' = r.visibility
             /\ IF r.exc # "none" THEN Abort(r.exc, r.out)
                ELSE IF ~r.ret THEN Exit1(r.out)
                ELSE Continue("check_anthropic_secret", r.out)
    /\ UNCHANGED <<legacy_removed, gitInstalled, ghInstalled, yamllintInstalled,
                   legacyExists, workflowFile, fileOps, commits, pushed>>

\* `check_anthropic_secret(args.repo_name)`
CheckAnthropicSecret ==
    /\ pc = "check_anthropic_secret"
    /\ \E rc \in ReturnCodes, listed \in SecretLists :
         LET r == check_anthropic_secret(rc, listed)
         IN  /\ cmds' = cmds \o r.cmds
             /\ IF r.exc # "none" THEN Abort(r.exc, r.out)
                ELSE Continue("handle_legacy_workflow", r.out)
    /\ UNCHANGED <<prompts, legacy_removed, gitInstalled, ghInstalled,
                   yamllintInstalled, visibility, legacyExists, workflowFile,
                   fileOps, commits, pushed>>

\* `legacy_removed = handle_legacy_workflow()`
HandleLegacyWorkflow ==
    /\ pc = "handle_legacy_workflow"
    /\ \E inp \in Inputs, unlinkOk \in BOOLEAN :
         LET r == handle_legacy_workflow(inp, unlinkOk)
         IN  /\ prompts' = prompts \o r.prompts
             /\ fileOps' = fileOps \o r.fileOps
             /\ legacyExists' = r.legacyExists
             /\ IF r.exc # "none"
                THEN Abort(r.exc, r.out) /\ UNCHANGED legacy_removed
                ELSE Continue("create_workflow_file", r.out) /\ legacy_removed' = r.ret
    /\ UNCHANGED <<cmds, gitInstalled, ghInstalled, yamllintInstalled,
                   visibility, workflowFile, commits, pushed>>

\* `create_workflow_file()`
CreateWorkflowFile ==
    /\ pc = "create_workflow_file"
    /\ \E mkdirOk \in BOOLEAN, writeOk \in BOOLEAN :
         LET r == create_workflow_file(mkdirOk, writeOk)
         IN  /\ fileOps' = fileOps \o r.fileOps
             /\ workflowFile' = r.workflowFile
             /\ IF r.exc # "none" THEN Abort(r.exc, r.out)
                ELSE Continue("validate_yaml", r.out)
    /\ UNCHANGED <<cmds, prompts, legacy_removed, gitInstalled, ghInstalled,
                   yamllintInstalled, visibility, legacyExists, commits, pushed>>

\* `validate_yaml(Path('.github/workflows/claude-review.yml'))`
ValidateYaml ==
    /\ pc = "validate_yaml"
    /\ \E rc \in ReturnCodes :
         LET r == validate_yaml(rc)
         IN  /\ cmds' = cmds \o r.cmds
             /\ IF r.exc # "none" THEN Abort(r.exc, r.out)
                ELSE Continue("commit_and_push_changes", r.out)
    /\ UNCHANGED <<prompts, legacy_removed, gitInstalled, ghInstalled,
                   yamllintInstalled, visibility, legacyExists, workflowFile,
                   fileOps, commits, pushed>>

\* `commit_and_push_changes(legacy_removed)`
CommitAndPushChanges ==
    /\ pc = "commit_and_push_changes"
    /\ \E addRc \in ReturnCodes, diffRc \in ReturnCodes, commitRc \in ReturnCodes,
          inp \in Inputs, pushRc \in ReturnCodes :
         LET r == commit_and_push_changes(legacy_removed, addRc, diffRc, commitRc,
                                          inp, pushRc)
         IN  /\ cmds' = cmds \o r.cmds
             /\ prompts' = prompts \o r.prompts
             /\ commits' = commits \o r.commits
             /\ pushed' = r.pushed
             /\ IF r.exc # "none" THEN Abort(r.exc, r.out)
                ELSE Continue("print_completion_message", r.out)
    /\ UNCHANGED <<legacy_removed, gitInstalled, ghInstalled, yamllintInstalled,
                   visibility, legacyExists, workflowFile, fileOps>>

\* `print_completion_message(legacy_removed)`, then main() returns
PrintCompletionMessage ==
    /\ pc = "print_completion_message"
    /\ pc' = "exited"
    /\ exitCode' = 0
    /\ log' = log \o print_completion_message(legacy_removed)
    /\ UNCHANGED <<cmds, prompts, legacy_removed, gitInstalled, ghInstalled,
                   yamllintInstalled, visibility, legacyExists, workflowFile,
                   fileOps, commits, pushed>>

Next ==
    \/ CheckPrerequisites
    \/ VerifyRepositoryAccess
    \/ EnsureGithubRepoPublic
    \/ CheckAnthropicSecret
    \/ HandleLegacyWorkflow
    \/ CreateWorkflowFile
    \/ ValidateYaml
    \/ CommitAndPushChanges
    \/ PrintCompletionMessage

Spec == Init /\ [][Next]_vars

----------------------------------------------------------------------------
(* Observations on the run so far *)

Issued(c) == \E i \in 1..Len(cmds) : cmds[i].cmd = c

Ran(c, result) == \E i \in 1..Len(cmds) : cmds[i] = [cmd |-> c, result |-> result]

Asked(p) == \E i \in 1..Len(prompts) : prompts[i].prompt = p

\* the operator typed a line at prompt p
Answered(p) ==
    \E i \in 1..Len(prompts) : prompts[i].prompt = p /\ prompts[i].response.kind = "line"

\* the operator typed y or Y at prompt p
AnsweredYes(p) ==
    \E i \in 1..Len(prompts) :
        /\ prompts[i].prompt = p
        /\ prompts[i].response.kind = "line"
        /\ prompts[i].response.text \in {<<"y">>, <<"Y">>}

\* the operator typed a line other than y or Y at prompt p
AnsweredOther(p) == Answered(p) /\ ~AnsweredYes(p)

Interrupted(p) ==
    \E i \in 1..Len(prompts) :
        prompts[i].prompt = p /\ prompts[i].response.kind = "KeyboardInterrupt"

Logged(m) == \E i \in 1..Len(log) : log[i] = m

DidOp(op) == \E i \in 1..Len(fileOps) : fileOps[i] = op

HasLine(msg, line) == \E i \in 1..Len(msg) : msg[i] = line

GitWrites == {CmdAdd, CmdCommit, CmdPush}

NoGitWrite == \A c \in GitWrites : ~Issued(c)

Exited(code) == pc = "exited" /\ exitCode = code

----------------------------------------------------------------------------
(* Claims *)

\* C1: when the operator answers the visibility-change prompt with a line
\* other than y/Y, the process exits 1 and the run issued no visibility
\* mutation, showed no legacy prompt, deleted no legacy file, wrote no
\* workflow file and invoked none of git add / git commit / git push.
C1_DeclineVisibilityHalts ==
    AnsweredOther(PromptPublic) =>
        /\ Exited(1)
        /\ ~Issued(CmdVisEdit)
        /\ ~Asked(PromptLegacy)
        /\ ~DidOp(OpUnlinkLegacy)
        /\ ~DidOp(OpWrite)
        /\ NoGitWrite

C1_Witness ==
    /\ AnsweredOther(PromptPublic)
    /\ Exited(1)
    /\ Ran(CmdVisQuery, "ok")
    /\ visibility # "public"

\* the failures that must end the run with status 1
FatalCmds == {CmdGitDir, CmdGhVer, CmdRepoView, CmdVisQuery, CmdVisEdit,
              CmdAdd, CmdCommit, CmdPush}

FatalCondition ==
    \/ \E i \in 1..Len(cmds) : cmds[i].cmd \in FatalCmds /\ cmds[i].result # "ok"
    \/ AnsweredOther(PromptPublic)
    \/ \E p \in {PromptPublic, PromptLegacy, PromptPush} : Interrupted(p)
    \/ Logged(MsgUnexpected)
    \/ Logged(MsgCancelled)

BenignEnd ==
    \/ pushed
    \/ AnsweredOther(PromptPush)
    \/ Ran(CmdDiff, "ok")

\* C2: the exit code is 0 exactly when the run reached the completion
\* report (full success, push declined, nothing to commit) and 1 on every
\* prerequisite failure, access failure, visibility refusal, unhandled
\* exception (failed git add / commit / push included) and interrupt at a
\* prompt; a run ends with no other code.
C2_ExitCodes ==
    /\ pc # "exited" => exitCode = Running
    /\ pc = "exited" => exitCode \in {0, 1}
    /\ pc = "exited" => (exitCode = 0 <=> Logged(MsgComplete))
    /\ FatalCondition => Exited(1)
    /\ (pc = "exited" /\ BenignEnd) => exitCode = 0

C2_Witness ==
    /\ Exited(1)
    /\ Ran(CmdPush, "nonzero")
    /\ Logged(MsgUnexpected)

\* C3: when `git diff --cached --quiet` reports no staged changes, no git
\* commit is issued, the push prompt is not shown, no git push is issued,
\* and the run goes on to the completion report.
C3_NothingToCommit ==
    Ran(CmdDiff, "ok") =>
        /\ Ran(CmdAdd, "ok")
        /\ DidOp(OpWrite)
        /\ ~Issued(CmdCommit)
        /\ commits = <<>>
        /\ ~Asked(PromptPush)
        /\ ~Issued(CmdPush)
        /\ pc \in {"print_completion_message", "exited"}
        /\ pc = "exited" => (exitCode = 0 /\ Logged(MsgComplete))

C3_Witness ==
    /\ Ran(CmdDiff, "ok")
    /\ Exited(0)
    /\ Logged(MsgNoChanges)

\* C4: once a commit exists, git push is issued exactly when the operator
\* answered the push prompt y/Y; on another answer (empty included) nothing
\* is pushed, the run exits 0, and when the legacy file was deleted with
\* consent the commit message carries the legacy-removal line.
C4_PushOnlyOnConsent ==
    commits # <<>> =>
        /\ Issued(CmdPush) <=> AnsweredYes(PromptPush)
        /\ AnsweredOther(PromptPush) =>
             /\ ~Issued(CmdPush)
             /\ ~pushed
             /\ Logged(MsgLocal)
             /\ pc \in {"print_completion_message", "exited"}
             /\ pc = "exited" => exitCode = 0
        /\ legacy_removed => HasLine(commits[1], RemovalLine)

C4_Witness ==
    /\ Len(commits) = 1
    /\ legacy_removed
    /\ DidOp(OpUnlinkLegacy)
    /\ AnsweredYes(PromptLegacy)
    /\ \E i \in 1..Len(prompts) :
          prompts[i] = Prompt(PromptPush, [kind |-> "line", text |-> <<>>])
    /\ Exited(0)

\* the legacy file was absent when handle_legacy_workflow looked for it
LegacyAbsentAtHandler ==
    /\ pc \notin {"check_prerequisites", "verify_repository_access",
                  "ensure_github_repo_public", "check_anthropic_secret",
                  "handle_legacy_workflow"}
    /\ Logged("Creating .github/workflows directory...")
    /\ ~legacyExists
    /\ ~DidOp(OpUnlinkLegacy)

\* C5: when the legacy workflow file does not exist as handle_legacy_workflow
\* runs, no deletion prompt is shown, the legacy-removal flag stays false and
\* no commit message of the run contains the removal line.
C5_NoLegacyNoRemovalLine ==
    LegacyAbsentAtHandler =>
        /\ ~Asked(PromptLegacy)
        /\ ~legacy_removed
        /\ \A i \in 1..Len(commits) : ~HasLine(commits[i], RemovalLine)
        /\ ~Logged(MsgLegacySection)

C5_Witness ==
    /\ LegacyAbsentAtHandler
    /\ Len(commits) = 1
    /\ Exited(0)

\* C6: a step of the visibility gatekeeper whose query succeeds while the
\* companion repository is public shows no prompt, issues no gh repo edit
\* and hands over to the secret check.
C6_PublicIsIdempotent ==
    [][(/\ pc = "ensure_github_repo_public"
        /\ visibility = "public"
        /\ Len(cmds') > Len(cmds)
        /\ cmds'[Len(cmds) + 1] = [cmd |-> CmdVisQuery, result |-> "ok"])
       => /\ prompts' = prompts
          /\ Len(cmds') = Len(cmds) + 1
          /\ visibility' = visibility
          /\ pc' = "check_anthropic_secret"
          /\ exitCode' = Running]_vars

C6_Witness ==
    /\ pc = "check_anthropic_secret"
    /\ Logged(MsgIsPublic)
    /\ ~Asked(PromptPublic)
    /\ ~Issued(CmdVisEdit)
    /\ visibility = "public"

\* C7: whatever the secret check finds (present, absent, query failing) and
\* whatever the linter does (missing, passing, failing), these two stages
\* hand over to the next stage and leave the exit code alone.
C7_AdvisoryNeverHalts ==
    [][/\ pc = "check_anthropic_secret" =>
            (pc' = "handle_legacy_workflow" /\ exitCode' = exitCode)
       /\ pc = "validate_yaml" =>
            (pc' = "commit_and_push_changes" /\ exitCode' = exitCode)]_vars

C7_Witness ==
    /\ Ran(CmdSecrets, "nonzero")
    /\ Ran(CmdYamllint, "nonzero")
    /\ Logged(MsgSecretUnknown)
    /\ Exited(0)

NoLaterStep(n) ==
    /\ Len(cmds) = n
    /\ prompts = <<>>
    /\ fileOps = <<>>
    /\ NoGitWrite

\* C8: for each of the two prerequisite checks, when its command returns
\* nonzero or is not found the run prints that check's remediation hint,
\* exits nonzero and performs no later step.
C8_PrerequisitesFailFast ==
    /\ (Issued(CmdGitDir) /\ ~Ran(CmdGitDir, "ok")) =>
          /\ Exited(1)
          /\ Logged(MsgNotGit) /\ Logged(MsgNotGitHint)
          /\ NoLaterStep(1)
    /\ (Issued(CmdGhVer) /\ ~Ran(CmdGhVer, "ok")) =>
          /\ Exited(1)
          /\ Logged(MsgNoGh) /\ Logged(MsgNoGhHint)
          /\ NoLaterStep(2)

LaterAction == fileOps # <<>> \/ ~NoGitWrite

\* C10: the legacy file is deleted, the workflow file written and git add /
\* commit / push issued only after the companion repository was seen public
\* or was switched to public by a consented mutation; when the visibility
\* query or the mutation fails the run exits 1 with none of these done; a
\* run issues at most one mutation.
C10_PublicBeforeWrites ==
    /\ LaterAction =>
          /\ Ran(CmdVisQuery, "ok")
          /\ visibility = "public"
          /\ \/ Logged(MsgIsPublic) /\ ~Issued(CmdVisEdit)
             \/ AnsweredYes(PromptPublic) /\ Ran(CmdVisEdit, "ok")
    /\ (Ran(CmdVisQuery, "nonzero") \/ Ran(CmdVisEdit, "nonzero")) =>
          (Exited(1) /\ ~LaterAction /\ ~Asked(PromptLegacy))
    /\ Cardinality({i \in 1..Len(cmds) : cmds[i].cmd = CmdVisEdit}) <= 1

C10_Witness ==
    /\ DidOp(OpWrite)
    /\ AnsweredYes(PromptPublic)
    /\ Ran(CmdVisEdit, "ok")
    /\ Issued(CmdCommit)

====
